---- MODULE Spec2Model ----
(***************************************************************************)
(* YouTube-Recent-Media: the API key manager (services/apiKeyManager.js),  *)
(* the fetch with key rotation (services/youtubeService.js) and the cron   *)
(* job / startup fetch that drive it (index.js), with the upserts of       *)
(* saveVideosToDatabase into the Video collection (models/Video.js).       *)
(*                                                                         *)
(* Time is Date.now() in milliseconds.  The configured keys are taken to   *)
(* be pairwise distinct, so a secret identifies its credential.            *)
(***************************************************************************)
EXTENDS Integers, Sequences, FiniteSets, TLC

\* ---------------------------------------------------------------- bounds
MaxKeys == 3        \* largest number of configured API keys
MaxTicks == 4       \* number of clock advances explored
MaxOverlap == 1     \* cron callbacks that may be in progress at once
MaxVideoIds == 1    \* distinct YouTube video ids the API may return
MaxItems == 2       \* largest number of items in one response page
MaxInputLen == 5    \* longest YOUTUBE_API_KEYS string given to the constructor
MaxStored == 13     \* most documents in the collection when it is queried
MaxPage == 2        \* largest page parameter of a request
MaxLimit == 12      \* largest limit parameter of a request

\* ------------------------------------------------------------- constants
twentyFourHours == 24 * 60 * 60 * 1000
\* The clock advances in steps of half a reset window.
ClockStep == twentyFourHours \div 2
\* Date.now() when the process starts; any real clock is far more than one
\* reset window after 0, the initial lastUsed.
StartTime == twentyFourHours
MaxNow == StartTime + MaxTicks * ClockStep

\* slot 0 is the startup fetch of app.listen, slots 1.. are cron callbacks
Tasks == 0..MaxOverlap
StartupTask == 0
CronTasks == 1..MaxOverlap

\* the i-th entry of keyArray (a secret); 0 is no secret
Secret(i) == i + 1
NoKey == 0

\* HTTP outcomes of one axios.get: 200, 403, another error status, or no
\* response at all (network failure: error.response is undefined -> 0)
OtherStatuses == {0, 500}

VARIABLES
    keys,             \* keyManager.keys: index -> [key, quotaExhausted, lastUsed]
    currentKeyIndex,  \* keyManager.currentKeyIndex
    now,              \* Date.now()
    started,          \* the app.listen callback has run
    pc,               \* task -> "idle" | "awaiting" (axios.get in flight) | "settled"
    currentKey,       \* task -> the const currentKey of the innermost call
    result,           \* what the last step settled a top-level fetchVideosFromYouTube with
    sent,             \* task -> secrets carried by the requests of its call in progress
    clockMoved,       \* task -> Date.now() changed while its call was in progress
    params,           \* task -> query and pageToken of its axios.get in flight
    fetchCalls,       \* task -> fetchVideosFromYouTube calls its fetchAndSaveVideos()
                      \* has made (saturating)
    availableAtEntry, \* task -> indexes not exhausted when its cycle called
                      \* fetchVideosFromYouTube
    lastEvent,        \* the call or callback that ran last: [op, task, status];
                      \* status is the HTTP status of a response, and for an
                      \* upsert the number of documents the loop had pushed
    storage,          \* the Video collection: documents in insertion order
    youtubeData,      \* task -> the youtubeData its saveVideosToDatabase is saving
    savedVideos,      \* task -> the savedVideos array of saveVideosToDatabase
    cycleResult,      \* what the last step settled a fetchAndSaveVideos() with
    rejected,         \* task -> its fetchAndSaveVideos() promise was rejected
    keysArg,          \* the argument of new APIKeyManager(keys)
    construction,     \* "pending", "constructed", or the message of the Error thrown
    query,            \* req.query of the last GET /api/videos
    response,         \* the JSON that request was answered with
    forbiddenSeen,    \* indexes that received a 403 since their last reset
    markCount,        \* markKeyAsExhausted calls since construction (saturating)
    marksInRow,       \* consecutive markKeyAsExhausted calls (saturating)
    runOldest,        \* oldest exhaustion stamp in force when that run began
    lastGet           \* what the last direct getCurrentKey call produced

poolVars == <<keys, currentKeyIndex>>
taskVars == <<started, pc, currentKey, result, sent, clockMoved, params, fetchCalls,
              availableAtEntry>>
cycleVars == <<storage, youtubeData, savedVideos, cycleResult, rejected>>
sideVars == <<keysArg, construction, query, response>>
NoTask == -1
Event(op, t, s) == [op |-> op, task |-> t, status |-> s]
histVars == <<forbiddenSeen, markCount, marksInRow, runOldest, lastGet>>
vars == <<keys, currentKeyIndex, now, started, pc, currentKey, result, sent, clockMoved,
          params, fetchCalls, availableAtEntry, lastEvent, storage, youtubeData, savedVideos, cycleResult, rejected,
          keysArg, construction, query, response,
          forbiddenSeen, markCount, marksInRow, runOldest, lastGet>>

\* ------------------------------------------------------------ key manager
KeysLength == Cardinality(DOMAIN keys)

\* constructor: every key non-exhausted, lastUsed 0, index 0
NewKeyManager(n) ==
    [i \in 0..(n - 1) |-> [key |-> Secret(i), quotaExhausted |-> FALSE, lastUsed |-> 0]]

hasAvailableKeys(ks) == \E i \in DOMAIN ks : ~ks[i].quotaExhausted

NoAvailableKeysError == -1
\* variant: the availability check is left out
getCurrentKeyUnchecked(ks, idx) == ks[idx].key
getCurrentKey(ks, idx) ==
    IF ~hasAvailableKeys(ks) THEN NoAvailableKeysError ELSE ks[idx].key

\* variant: the sweep clears every flag, whatever the age
resetExhaustedKeysAnyAge(ks, t) ==
    [i \in DOMAIN ks |-> [ks[i] EXCEPT !.quotaExhausted = FALSE]]
resetExhaustedKeys(ks, t) ==
    [i \in DOMAIN ks |->
        IF t - ks[i].lastUsed >= twentyFourHours
        THEN [ks[i] EXCEPT !.quotaExhausted = FALSE]
        ELSE ks[i]]

\* one pass of the do-while body and its condition; steps counts the
\* passes (advances of the index), sweeps the calls of resetExhaustedKeys
RECURSIVE rotateLoop(_, _, _, _)
rotateLoop(ks, idx, startIndex, t) ==
    LET idx1 == (idx + 1) % Cardinality(DOMAIN ks)
        swept == IF idx1 = startIndex THEN 1 ELSE 0
        ks1 == IF idx1 = startIndex THEN resetExhaustedKeys(ks, t) ELSE ks
    IN  IF ks1[idx1].quotaExhausted /\ idx1 # startIndex
        THEN LET rest == rotateLoop(ks1, idx1, startIndex, t)
             IN  [rest EXCEPT !.steps = @ + 1, !.sweeps = @ + swept]
        ELSE [keys |-> ks1, currentKeyIndex |-> idx1, sweeps |-> swept, steps |-> 1]

\* variant: the index moves one step, exhausted or not
rotateToNextKeyOneStep(ks, idx, t) ==
    [keys |-> ks, currentKeyIndex |-> (idx + 1) % Cardinality(DOMAIN ks), sweeps |-> 0,
     steps |-> 1]
\* variant: the sweep also runs on entry, before the loop
rotateToNextKeySweepsFirst(ks, idx, t) ==
    LET r == rotateLoop(resetExhaustedKeys(ks, t), idx, idx, t)
    IN  [r EXCEPT !.sweeps = @ + 1]
rotateToNextKey(ks, idx, t) == rotateLoop(ks, idx, idx, t)

\* variant: the key is marked but the index is not rotated
markKeyAsExhaustedNoRotate(ks, idx, t) ==
    [keys |-> [ks EXCEPT ![idx] = [@ EXCEPT !.quotaExhausted = TRUE, !.lastUsed = t]],
     currentKeyIndex |-> idx, sweeps |-> 0, steps |-> 0]
\* variant: the index is rotated before the key at it is marked
markKeyAsExhaustedRotatesFirst(ks, idx, t) ==
    LET r == rotateToNextKey(ks, idx, t)
    IN  [r EXCEPT !.keys[r.currentKeyIndex] =
                      [@ EXCEPT !.quotaExhausted = TRUE, !.lastUsed = t]]
\* variant: the exhausted entry is taken out of the array
markKeyAsExhaustedRemoves(ks, idx, t) ==
    LET n == Cardinality(DOMAIN ks)
        rest == [i \in 0..(n - 2) |-> IF i < idx THEN ks[i] ELSE ks[i + 1]]
    IN  IF n = 1
        THEN markKeyAsExhaustedNoRotate(ks, idx, t)
        ELSE [keys |-> rest, currentKeyIndex |-> idx % (n - 1), sweeps |-> 0, steps |-> 1]
markKeyAsExhausted(ks, idx, t) ==
    rotateToNextKey([ks EXCEPT ![idx] = [@ EXCEPT !.quotaExhausted = TRUE, !.lastUsed = t]],
                    idx, t)

\* ------------------------------------------------ constructor argument
\* A JavaScript value handed to the constructor: undefined, a number, or a
\* string, which is a sequence of characters.
Whitespace == {" ", "\t"}
Chars == {"a", "b", ","} \cup Whitespace
Undefined == [type |-> "undefined", chars |-> <<>>, number |-> 0]
Number(n) == [type |-> "number", chars |-> <<>>, number |-> n]
String(cs) == [type |-> "string", chars |-> cs, number |-> 0]
\* three entries padded with whitespace: a, b ,c
ExampleKeys == <<"a", ",", " ", "b", " ", ",", "c">>
\* the running program does not look at the argument again
NotKept == [type |-> "none", chars |-> <<>>, number |-> 0]
Args ==
    {Undefined, Number(0), Number(42), String(ExampleKeys)} \cup
    {String(cs) : cs \in UNION {[1..k -> Chars] : k \in 0..MaxInputLen}}

\* !keys
Falsy(arg) ==
    \/ arg.type = "undefined"
    \/ arg.type = "number" /\ arg.number = 0
    \/ arg.type = "string" /\ arg.chars = <<>>

\* String.prototype.trim
RECURSIVE trimStart(_)
trimStart(cs) ==
    IF cs # <<>> /\ Head(cs) \in Whitespace THEN trimStart(Tail(cs)) ELSE cs
RECURSIVE trimEnd(_)
trimEnd(cs) ==
    IF cs # <<>> /\ cs[Len(cs)] \in Whitespace
    THEN trimEnd(SubSeq(cs, 1, Len(cs) - 1))
    ELSE cs
\* variant: only leading whitespace is removed
trimStartOnly(cs) == trimStart(cs)
trim(cs) == trimEnd(trimStart(cs))

\* String.prototype.split(','): current is the piece being read
RECURSIVE splitFrom(_, _)
splitFrom(cs, current) ==
    IF cs = <<>> THEN <<current>>
    ELSE IF Head(cs) = "," THEN <<current>> \o splitFrom(Tail(cs), <<>>)
    ELSE splitFrom(Tail(cs), Append(current, Head(cs)))
split(cs) == splitFrom(cs, <<>>)

\* .map(key => key.trim())
mapTrim(parts) == [i \in 1..Len(parts) |-> trim(parts[i])]
\* variant: the filter keeps every entry
filterNonEmptyKeepsAll(parts) == parts
\* .filter(key => key !== '')
filterNonEmpty(parts) == SelectSeq(parts, LAMBDA k : k # <<>>)

NoKeysProvided == "No YouTube API keys provided. Please set YOUTUBE_API_KEYS in your environment variables."
NoValidKeys == "No valid API keys found after processing."
NoPool == <<>>

\* new APIKeyManager(arg): the Error thrown, or the fields of the object
APIKeyManager(arg) ==
    IF Falsy(arg) \/ arg.type # "string" \/ trim(arg.chars) = <<>>
    THEN [thrown |-> NoKeysProvided, keys |-> NoPool, currentKeyIndex |-> 0]
    ELSE LET keyArray == filterNonEmpty(mapTrim(split(arg.chars)))
         IN  IF Len(keyArray) = 0
             THEN [thrown |-> NoValidKeys, keys |-> NoPool, currentKeyIndex |-> 0]
             ELSE [thrown |-> "",
                   keys |-> [i \in 0..(Len(keyArray) - 1) |->
                               [key |-> keyArray[i + 1], quotaExhausted |-> FALSE,
                                lastUsed |-> 0]],
                   currentKeyIndex |-> 0]

\* ------------------------------------------------------ GET /api/videos
\* a query parameter: given as a decimal number, or absent
Absent == [given |-> FALSE, value |-> 0]
Given(n) == [given |-> TRUE, value |-> n]
NoQuery == [page |-> Absent, limit |-> Absent]
NoResponse ==
    [count |-> 0, currentPage |-> 0, totalPages |-> 0, totalVideos |-> 0, data |-> <<>>]
Queries ==
    [page : {Absent} \cup {Given(n) : n \in 1..MaxPage},
     limit : {Absent} \cup {Given(n) : n \in 0..MaxLimit}]

DefaultPage == 1
DefaultLimit == 10
\* the default the README gives for limit
ReadmeDefaultLimit == 12

\* parseInt(param) || default: NaN (parameter absent) and 0 are falsy
parseIntOr(param, default) ==
    IF param.given /\ param.value # 0 THEN param.value ELSE default
\* Math.ceil(a / b) for a >= 0, b > 0
Ceil(a, b) == (a + b - 1) \div b
Max(a, b) == IF a > b THEN a ELSE b

\* getVideos without filters; the documents are taken in collection order
getVideos(st, q) ==
    LET page == parseIntOr(q.page, DefaultPage)
        limit == parseIntOr(q.limit, DefaultLimit)
        skip == (page - 1) * limit
        last == IF Len(st) < skip + limit THEN Len(st) ELSE skip + limit
        videos == SubSeq(st, skip + 1, last)
        totalVideos == Len(st)
    IN  [count |-> Len(videos),
         currentPage |-> page,
         totalPages |-> Ceil(totalVideos, limit),
         totalVideos |-> totalVideos,
         data |-> videos]

\* ------------------------------------------------- request parameters
\* process.env.SEARCH_QUERY || 'official'
SEARCH_QUERY == "official"
\* no page token: the null default of pageToken, or a response.data without
\* nextPageToken
NoToken == ""
PageTokens == {NoToken, "CAUQAA"}
\* q and pageToken of the URLSearchParams (part, maxResults, type and order
\* are the same in every request)
Params(q, pageToken) == [q |-> q, pageToken |-> pageToken]
NoParams == Params("", NoToken)
\* most fetchVideosFromYouTube calls of one cycle that are counted
MaxFetchCalls == 2

\* ------------------------------------------------------------- outcomes
NoResult == [kind |-> "none", status |-> 0, key |-> NoKey]
\* response.data of the request that carried secret k
ResponseData(k) == [kind |-> "data", status |-> 200, key |-> k]
\* new Error('All API keys are exhausted. Please try again later.')
AllKeysExhaustedError == [kind |-> "AllKeysExhausted", status |-> 0, key |-> NoKey]
\* the error axios rejects with; status 0 when there is no response
AxiosError(s, k) == [kind |-> "AxiosError", status |-> s, key |-> k]
\* the error a failed Video.findOneAndUpdate rejects with
PersistenceError == [kind |-> "MongoError", status |-> 0, key |-> NoKey]

\* settlement of fetchAndSaveVideos(): nothing yet, a returned array of
\* documents, or a rethrown error
NoCycleResult == [kind |-> "none", error |-> NoResult, videos |-> <<>>]
Returned(vs) == [kind |-> "returned", error |-> NoResult, videos |-> vs]
Rejected(e) == [kind |-> "rejected", error |-> e, videos |-> <<>>]

\* ------------------------------------------------------ API pages, storage
\* An item of the search response; of the snippet only the title is kept
\* (description, publishedAt, thumbnails, channel fields travel with it).
VideoIds == 1..MaxVideoIds
Titles == {"t1", "t2"}
Item(v, x) == [id |-> [videoId |-> v], snippet |-> [title |-> x]]
ApiItems == {Item(v, x) : v \in VideoIds, x \in Titles}
SeqsUpTo(S, n) == UNION {[1..k -> S] : k \in 0..n}
\* response.data: with an items array, or without the field
NoData == [hasItems |-> FALSE, items |-> <<>>, nextPageToken |-> NoToken]
Page(p, token) == [hasItems |-> TRUE, items |-> p, nextPageToken |-> token]
\* the last page of the results: no nextPageToken
YoutubeData ==
    {NoData} \cup {Page(p, NoToken) : p \in SeqsUpTo(ApiItems, MaxItems)}
\* any page of the results
YoutubePages ==
    {NoData} \cup {Page(p, token) : p \in SeqsUpTo(ApiItems, MaxItems), token \in PageTokens}

\* videoData built from an item
VideoData(item) == [videoId |-> item.id.videoId, title |-> item.snippet.title]

\* Video.findOneAndUpdate({videoId}, videoData, {upsert: true, new: true}):
\* the first document with that videoId is replaced, or a new one appended
Matching(st, v) == {i \in 1..Len(st) : st[i].videoId = v}
\* variant: Video.create(videoData), a plain insert
findOneAndUpdateInserts(st, vd) == Append(st, vd)
findOneAndUpdate(st, vd) ==
    IF Matching(st, vd.videoId) = {}
    THEN Append(st, vd)
    ELSE LET i == CHOOSE j \in Matching(st, vd.videoId) :
                      \A k \in Matching(st, vd.videoId) : j <= k
         IN  [st EXCEPT ![i] = vd]

\* ------------------------------------------------------------------ Init
\* the pool is constructed, nothing has run yet
Constructed ==
    /\ \E n \in 1..MaxKeys : keys = NewKeyManager(n)
    /\ currentKeyIndex = 0
    /\ now = StartTime
    /\ started = FALSE
    /\ pc = [t \in Tasks |-> "idle"]
    /\ currentKey = [t \in Tasks |-> NoKey]
    /\ result = NoResult
    /\ sent = [t \in Tasks |-> <<>>]
    /\ clockMoved = [t \in Tasks |-> FALSE]
    /\ params = [t \in Tasks |-> NoParams]
    /\ fetchCalls = [t \in Tasks |-> 0]
    /\ availableAtEntry = [t \in Tasks |-> {}]
    /\ youtubeData = [t \in Tasks |-> NoData]
    /\ savedVideos = [t \in Tasks |-> <<>>]
    /\ cycleResult = NoCycleResult
    /\ rejected = [t \in Tasks |-> FALSE]
    /\ keysArg = NotKept
    /\ construction = "constructed"
    /\ query = NoQuery
    /\ response = NoResponse
    /\ lastEvent = Event("construct", NoTask, 0)
    /\ forbiddenSeen = {}
    /\ markCount = 0
    /\ marksInRow = 0
    /\ runOldest = StartTime
    /\ lastGet = NoKey

\* the collection starts empty
Init == Constructed /\ storage = <<>>

\* ------------------------------------------------------------ bookkeeping
Min(a, b) == IF a < b THEN a ELSE b
ExhaustedSet(ks) == {i \in DOMAIN ks : ks[i].quotaExhausted}
RECURSIVE MinOf(_)
MinOf(S) == LET x == CHOOSE y \in S : TRUE
            IN IF S = {x} THEN x ELSE Min(x, MinOf(S \ {x}))
OldestStamp(ks, t) ==
    IF ExhaustedSet(ks) = {} THEN t
    ELSE MinOf({ks[i].lastUsed : i \in ExhaustedSet(ks)})

\* the history a markKeyAsExhausted call leaves; carried is the set of
\* indexes whose request got the 403 that caused the call
MarkHistory(carried, newKeys) ==
    /\ forbiddenSeen' = {i \in forbiddenSeen \cup carried :
                             ~(keys[i].quotaExhausted /\ ~newKeys[i].quotaExhausted)}
    /\ markCount' = Min(markCount + 1, MaxKeys + 2)
    /\ marksInRow' = Min(marksInRow + 1, MaxKeys + 2)
    /\ runOldest' = IF marksInRow = 0 THEN OldestStamp(keys, now) ELSE runOldest

\* -------------------------------------------------- clock
Tick ==
    /\ now + ClockStep <= MaxNow
    /\ now' = now + ClockStep
    /\ lastEvent' = Event("tick", NoTask, 0)
    /\ clockMoved' = [t \in Tasks |-> pc[t] = "awaiting"]
    /\ result' = NoResult
    /\ cycleResult' = NoCycleResult
    /\ UNCHANGED <<sideVars, poolVars, started, pc, currentKey, sent, histVars>>
    /\ UNCHANGED <<storage, youtubeData, savedVideos, rejected, params, fetchCalls,
                   availableAtEntry>>

\* -------------------------------------------------- direct calls on the pool
PoolMarkKeyAsExhausted ==
    LET r == markKeyAsExhausted(keys, currentKeyIndex, now)
    IN  /\ keys' = r.keys
        /\ currentKeyIndex' = r.currentKeyIndex
        /\ MarkHistory({}, r.keys)
        /\ lastEvent' = Event("markKeyAsExhausted", NoTask, 0)
        /\ UNCHANGED <<sideVars, now, taskVars, cycleVars, lastGet>>

PoolRotateToNextKey ==
    LET r == rotateToNextKey(keys, currentKeyIndex, now)
    IN  /\ keys' = r.keys
        /\ currentKeyIndex' = r.currentKeyIndex
        /\ forbiddenSeen' = {i \in forbiddenSeen :
                                 ~(keys[i].quotaExhausted /\ ~r.keys[i].quotaExhausted)}
        /\ marksInRow' = 0
        /\ lastEvent' = Event("rotateToNextKey", NoTask, 0)
        /\ UNCHANGED <<sideVars, now, taskVars, cycleVars, markCount, runOldest, lastGet>>

PoolGetCurrentKey ==
    /\ lastGet' = getCurrentKey(keys, currentKeyIndex)
    /\ lastEvent' = Event("getCurrentKey", NoTask, 0)
    /\ UNCHANGED sideVars
    /\ UNCHANGED <<poolVars, now, taskVars, cycleVars, forbiddenSeen, markCount, marksInRow,
                   runOldest>>

NextPool ==
    \/ PoolMarkKeyAsExhausted
    \/ PoolRotateToNextKey
    \/ PoolGetCurrentKey
    \/ Tick

SpecPool == Init /\ [][NextPool]_vars

\* -------------------------------------------------- fetchVideosFromYouTube
KeyIndex(ks, k) == CHOOSE i \in DOMAIN ks : ks[i].key = k

\* variant: fetchAndSaveVideos throws a new Error in place of the one caught
SettleWrapped(t, r) ==
    /\ pc' = [pc EXCEPT ![t] = "settled"]
    /\ currentKey' = [currentKey EXCEPT ![t] = NoKey]
    /\ result' = r
    /\ sent' = [sent EXCEPT ![t] = <<>>]
    /\ clockMoved' = [clockMoved EXCEPT ![t] = FALSE]
    /\ params' = [params EXCEPT ![t] = NoParams]
    /\ cycleResult' = Rejected([kind |-> "Error", status |-> 0, key |-> NoKey])
    /\ rejected' = [rejected EXCEPT ![t] = TRUE]
    /\ UNCHANGED <<storage, youtubeData, savedVideos>>

\* task t's top-level call throws r; fetchAndSaveVideos logs and rethrows it
Settle(t, r) ==
    /\ pc' = [pc EXCEPT ![t] = "settled"]
    /\ currentKey' = [currentKey EXCEPT ![t] = NoKey]
    /\ result' = r
    /\ sent' = [sent EXCEPT ![t] = <<>>]
    /\ clockMoved' = [clockMoved EXCEPT ![t] = FALSE]
    /\ params' = [params EXCEPT ![t] = NoParams]
    /\ cycleResult' = Rejected(r)
    /\ rejected' = [rejected EXCEPT ![t] = TRUE]
    /\ UNCHANGED <<storage, youtubeData, savedVideos>>

\* The synchronous part of one call of fetchVideosFromYouTube by task t, up
\* to its await: it throws when no key is available, otherwise it takes
\* getCurrentKey() and issues axios.get with it.  ks, idx is the pool as
\* the call finds it; q is its query argument.
fetchVideosFromYouTube(t, ks, idx, q, pageToken) ==
    IF ~hasAvailableKeys(ks)
    THEN Settle(t, AllKeysExhaustedError)
    ELSE /\ pc' = [pc EXCEPT ![t] = "awaiting"]
         /\ currentKey' = [currentKey EXCEPT ![t] = getCurrentKey(ks, idx)]
         /\ result' = NoResult
         /\ sent' = [sent EXCEPT ![t] = Append(@, getCurrentKey(ks, idx))]
         /\ clockMoved' = clockMoved
         /\ params' = [params EXCEPT ![t] = Params(q, pageToken)]
         /\ cycleResult' = NoCycleResult
         /\ UNCHANGED <<storage, youtubeData, savedVideos, rejected>>

\* fetchAndSaveVideos() called with no cycle of its own in progress: query
\* takes its default, and fetchVideosFromYouTube is called with it alone
fetchAndSaveVideos(t) ==
    /\ pc[t] = "idle"
    /\ fetchVideosFromYouTube(t, keys, currentKeyIndex, SEARCH_QUERY, NoToken)
    /\ fetchCalls' = [fetchCalls EXCEPT ![t] = Min(@ + 1, MaxFetchCalls)]
    /\ availableAtEntry' = [availableAtEntry EXCEPT ![t] = DOMAIN keys \ ExhaustedSet(keys)]
    /\ UNCHANGED <<sideVars, poolVars, now, histVars>>

\* app.listen callback: the initial fetch, once
AppListen ==
    /\ ~started
    /\ started' = TRUE
    /\ lastEvent' = Event("listen", StartupTask, 0)
    /\ fetchAndSaveVideos(StartupTask)

\* cron.schedule callback: every tick starts a cycle of its own
CronTick ==
    /\ \E t \in CronTasks :
          /\ \A u \in CronTasks : u < t => pc[u] # "idle"
          /\ lastEvent' = Event("cron", t, 0)
          /\ fetchAndSaveVideos(t)
    /\ UNCHANGED started

\* the TypeError of reading .length of undefined
TypeError == [kind |-> "TypeError", status |-> 0, key |-> NoKey]

\* variant: the test is youtubeData.items.length > 0 alone
Respond200Unguarded(t, data) ==
    /\ pc[t] = "awaiting"
    /\ currentKey' = [currentKey EXCEPT ![t] = NoKey]
    /\ result' = ResponseData(currentKey[t])
    /\ sent' = [sent EXCEPT ![t] = <<>>]
    /\ clockMoved' = [clockMoved EXCEPT ![t] = FALSE]
    /\ params' = [params EXCEPT ![t] = NoParams]
    /\ fetchCalls' = fetchCalls
    /\ IF ~data.hasItems
       THEN /\ pc' = [pc EXCEPT ![t] = "settled"]
            /\ cycleResult' = Rejected(TypeError)
            /\ rejected' = [rejected EXCEPT ![t] = TRUE]
            /\ youtubeData' = youtubeData
       ELSE /\ rejected' = rejected
            /\ IF Len(data.items) > 0
               THEN /\ pc' = [pc EXCEPT ![t] = "saving"]
                    /\ youtubeData' = [youtubeData EXCEPT ![t] = data]
                    /\ cycleResult' = NoCycleResult
               ELSE /\ pc' = [pc EXCEPT ![t] = "settled"]
                    /\ youtubeData' = youtubeData
                    /\ cycleResult' = Returned(<<>>)
    /\ lastEvent' = Event("response", t, 200)
    /\ UNCHANGED <<sideVars, poolVars, now, started, histVars, storage, savedVideos,
                   availableAtEntry>>

\* variant: a page with a nextPageToken is followed by a call for the next
\* page
Respond200FollowsToken(t, data) ==
    /\ pc[t] = "awaiting"
    /\ result' = ResponseData(currentKey[t])
    /\ clockMoved' = [clockMoved EXCEPT ![t] = FALSE]
    /\ IF data.nextPageToken # NoToken
       THEN /\ currentKey' = [currentKey EXCEPT ![t] = keys[currentKeyIndex].key]
            /\ sent' = [sent EXCEPT ![t] = <<keys[currentKeyIndex].key>>]
            /\ params' = [params EXCEPT ![t] = Params(SEARCH_QUERY, data.nextPageToken)]
            /\ fetchCalls' = [fetchCalls EXCEPT ![t] = Min(@ + 1, MaxFetchCalls)]
            /\ cycleResult' = NoCycleResult
            /\ UNCHANGED <<pc, youtubeData>>
       ELSE /\ currentKey' = [currentKey EXCEPT ![t] = NoKey]
            /\ sent' = [sent EXCEPT ![t] = <<>>]
            /\ params' = [params EXCEPT ![t] = NoParams]
            /\ fetchCalls' = fetchCalls
            /\ IF data.hasItems /\ Len(data.items) > 0
               THEN /\ pc' = [pc EXCEPT ![t] = "saving"]
                    /\ youtubeData' = [youtubeData EXCEPT ![t] = data]
                    /\ cycleResult' = NoCycleResult
               ELSE /\ pc' = [pc EXCEPT ![t] = "settled"]
                    /\ youtubeData' = youtubeData
                    /\ cycleResult' = Returned(<<>>)
    /\ lastEvent' = Event("response", t, 200)
    /\ UNCHANGED <<sideVars, poolVars, now, started, histVars, storage, savedVideos, rejected,
                   availableAtEntry>>

\* axios.get resolves with youtubeData: fetchVideosFromYouTube returns it
\* and fetchAndSaveVideos either starts saveVideosToDatabase, whose first
\* findOneAndUpdate it then awaits, or returns []
Respond200(t, data) ==
    /\ pc[t] = "awaiting"
    /\ currentKey' = [currentKey EXCEPT ![t] = NoKey]
    /\ result' = ResponseData(currentKey[t])
    /\ sent' = [sent EXCEPT ![t] = <<>>]
    /\ clockMoved' = [clockMoved EXCEPT ![t] = FALSE]
    /\ params' = [params EXCEPT ![t] = NoParams]
    /\ fetchCalls' = fetchCalls
    /\ IF data.hasItems /\ Len(data.items) > 0
       THEN /\ pc' = [pc EXCEPT ![t] = "saving"]
            /\ youtubeData' = [youtubeData EXCEPT ![t] = data]
            /\ cycleResult' = NoCycleResult
       ELSE /\ pc' = [pc EXCEPT ![t] = "settled"]
            /\ youtubeData' = youtubeData
            /\ cycleResult' = Returned(<<>>)
    /\ lastEvent' = Event("response", t, 200)
    /\ UNCHANGED <<sideVars, poolVars, now, started, histVars, storage, savedVideos, rejected,
                   availableAtEntry>>

Response200(t) == \E data \in YoutubeData : Respond200(t, data)

\* more results may follow the page
Response200Page(t) == \E data \in YoutubePages : Respond200(t, data)

\* the provider finds no video
Response200Empty(t) == Respond200(t, Page(<<>>, NoToken))

\* variant: the loop walks the page from its last item to its first
UpsertDoneBackwards(t) ==
    /\ pc[t] = "saving"
    /\ LET items == youtubeData[t].items
           videoData == VideoData(items[Len(items) - Len(savedVideos[t])])
           saved == Append(savedVideos[t], videoData)
       IN  /\ storage' = findOneAndUpdate(storage, videoData)
           /\ IF Len(saved) < Len(items)
              THEN /\ savedVideos' = [savedVideos EXCEPT ![t] = saved]
                   /\ cycleResult' = NoCycleResult
                   /\ UNCHANGED <<pc, youtubeData>>
              ELSE /\ pc' = [pc EXCEPT ![t] = "settled"]
                   /\ cycleResult' = Returned(saved)
                   /\ youtubeData' = [youtubeData EXCEPT ![t] = NoData]
                   /\ savedVideos' = [savedVideos EXCEPT ![t] = <<>>]
    /\ result' = NoResult
    /\ lastEvent' = Event("upsert", t, Len(savedVideos[t]))
    /\ UNCHANGED sideVars
    /\ UNCHANGED <<poolVars, now, started, currentKey, sent, clockMoved, rejected, histVars>>
    /\ UNCHANGED <<params, fetchCalls, availableAtEntry>>

\* the awaited findOneAndUpdate resolves: the document is pushed and the
\* loop goes on to the next item, or saveVideosToDatabase returns
UpsertDone(t) ==
    /\ pc[t] = "saving"
    /\ LET videoData == VideoData(youtubeData[t].items[Len(savedVideos[t]) + 1])
           saved == Append(savedVideos[t], videoData)
       IN  /\ storage' = findOneAndUpdate(storage, videoData)
           /\ IF Len(saved) < Len(youtubeData[t].items)
              THEN /\ savedVideos' = [savedVideos EXCEPT ![t] = saved]
                   /\ cycleResult' = NoCycleResult
                   /\ UNCHANGED <<pc, youtubeData>>
              ELSE /\ pc' = [pc EXCEPT ![t] = "settled"]
                   /\ cycleResult' = Returned(saved)
                   /\ youtubeData' = [youtubeData EXCEPT ![t] = NoData]
                   /\ savedVideos' = [savedVideos EXCEPT ![t] = <<>>]
    /\ result' = NoResult
    /\ lastEvent' = Event("upsert", t, Len(savedVideos[t]))
    /\ UNCHANGED sideVars
    /\ UNCHANGED <<poolVars, now, started, currentKey, sent, clockMoved, rejected, histVars>>
    /\ UNCHANGED <<params, fetchCalls, availableAtEntry>>

\* variant: the try/catch sits inside the loop, the item is skipped
UpsertFailsSkips(t) ==
    /\ pc[t] = "saving"
    /\ LET saved == Append(savedVideos[t],
                            VideoData(youtubeData[t].items[Len(savedVideos[t]) + 1]))
       IN  IF Len(saved) < Len(youtubeData[t].items)
           THEN /\ savedVideos' = [savedVideos EXCEPT ![t] = saved]
                /\ cycleResult' = NoCycleResult
                /\ UNCHANGED <<pc, youtubeData>>
           ELSE /\ pc' = [pc EXCEPT ![t] = "settled"]
                /\ cycleResult' = Returned(savedVideos[t])
                /\ youtubeData' = [youtubeData EXCEPT ![t] = NoData]
                /\ savedVideos' = [savedVideos EXCEPT ![t] = <<>>]
    /\ result' = NoResult
    /\ lastEvent' = Event("upsertFailed", t, Len(savedVideos[t]))
    /\ UNCHANGED sideVars
    /\ UNCHANGED <<poolVars, now, started, currentKey, sent, clockMoved, storage, histVars>>
    /\ UNCHANGED <<params, fetchCalls, availableAtEntry>>
    /\ UNCHANGED rejected

\* the awaited findOneAndUpdate rejects: the catch logs and rethrows
UpsertFails(t) ==
    /\ pc[t] = "saving"
    /\ pc' = [pc EXCEPT ![t] = "settled"]
    /\ cycleResult' = Rejected(PersistenceError)
    /\ rejected' = [rejected EXCEPT ![t] = TRUE]
    /\ result' = NoResult
    /\ youtubeData' = [youtubeData EXCEPT ![t] = NoData]
    /\ savedVideos' = [savedVideos EXCEPT ![t] = <<>>]
    /\ lastEvent' = Event("upsertFailed", t, Len(savedVideos[t]))
    /\ UNCHANGED sideVars
    /\ UNCHANGED <<poolVars, now, started, currentKey, sent, clockMoved, storage, histVars>>
    /\ UNCHANGED <<params, fetchCalls, availableAtEntry>>

\* variant: a 403 is rethrown without a retry
Response403NoRetry(t) ==
    /\ pc[t] = "awaiting"
    /\ LET r == markKeyAsExhausted(keys, currentKeyIndex, now)
       IN  /\ keys' = r.keys
           /\ currentKeyIndex' = r.currentKeyIndex
           /\ MarkHistory({KeyIndex(keys, currentKey[t])}, r.keys)
           /\ Settle(t, AxiosError(403, currentKey[t]))
    /\ lastEvent' = Event("response", t, 403)
    /\ UNCHANGED <<sideVars, now, started, fetchCalls, availableAtEntry, lastGet>>

\* variant: the catch calls markKeyAsExhausted twice
Response403MarksTwice(t) ==
    /\ pc[t] = "awaiting"
    /\ LET once == markKeyAsExhausted(keys, currentKeyIndex, now)
           r == markKeyAsExhausted(once.keys, once.currentKeyIndex, now)
       IN  /\ keys' = r.keys
           /\ currentKeyIndex' = r.currentKeyIndex
           /\ forbiddenSeen' = forbiddenSeen \cup {KeyIndex(keys, currentKey[t])}
           /\ markCount' = Min(markCount + 2, MaxKeys + 2)
           /\ marksInRow' = Min(marksInRow + 2, MaxKeys + 2)
           /\ runOldest' = IF marksInRow = 0 THEN OldestStamp(keys, now) ELSE runOldest
           /\ IF hasAvailableKeys(r.keys)
              THEN fetchVideosFromYouTube(t, r.keys, r.currentKeyIndex,
                                           params[t].q, params[t].pageToken)
              ELSE Settle(t, AxiosError(403, currentKey[t]))
    /\ lastEvent' = Event("response", t, 403)
    /\ UNCHANGED <<sideVars, now, started, fetchCalls, availableAtEntry, lastGet>>

\* axios.get rejects with status 403: mark, then retry or rethrow
Response403(t) ==
    /\ pc[t] = "awaiting"
    /\ LET r == markKeyAsExhausted(keys, currentKeyIndex, now)
       IN  /\ keys' = r.keys
           /\ currentKeyIndex' = r.currentKeyIndex
           /\ MarkHistory({KeyIndex(keys, currentKey[t])}, r.keys)
           /\ IF hasAvailableKeys(r.keys)
              THEN fetchVideosFromYouTube(t, r.keys, r.currentKeyIndex,
                                           params[t].q, params[t].pageToken)
              ELSE Settle(t, AxiosError(403, currentKey[t]))
    /\ lastEvent' = Event("response", t, 403)
    /\ UNCHANGED <<sideVars, now, started, fetchCalls, availableAtEntry, lastGet>>

\* variant: every failed request is taken for a quota failure
ResponseErrorRetries(t) ==
    /\ pc[t] = "awaiting"
    /\ LET r == markKeyAsExhausted(keys, currentKeyIndex, now)
       IN  /\ keys' = r.keys
           /\ currentKeyIndex' = r.currentKeyIndex
           /\ MarkHistory({KeyIndex(keys, currentKey[t])}, r.keys)
           /\ \E s \in OtherStatuses :
                 /\ lastEvent' = Event("response", t, s)
                 /\ IF hasAvailableKeys(r.keys)
                    THEN fetchVideosFromYouTube(t, r.keys, r.currentKeyIndex,
                                           params[t].q, params[t].pageToken)
                    ELSE Settle(t, AxiosError(s, currentKey[t]))
    /\ UNCHANGED <<sideVars, now, started, fetchCalls, availableAtEntry, lastGet>>
\* axios.get rejects with anything else: rethrow
ResponseError(t) ==
    /\ pc[t] = "awaiting"
    /\ \E s \in OtherStatuses :
          /\ Settle(t, AxiosError(s, currentKey[t]))
          /\ lastEvent' = Event("response", t, s)
    /\ UNCHANGED <<sideVars, poolVars, now, started, fetchCalls, availableAtEntry, histVars>>

\* variant: no catch around the await; the unhandled rejection ends the
\* process
CycleEndUncaught(t) ==
    /\ pc[t] = "settled"
    /\ pc' = IF rejected[t] THEN [u \in Tasks |-> "exited"]
                             ELSE [pc EXCEPT ![t] = "idle"]
    /\ result' = NoResult
    /\ cycleResult' = NoCycleResult
    /\ rejected' = [rejected EXCEPT ![t] = FALSE]
    /\ lastEvent' = Event("cycleEnd", t, 0)
    /\ fetchCalls' = [fetchCalls EXCEPT ![t] = 0]
    /\ availableAtEntry' = [availableAtEntry EXCEPT ![t] = {}]
    /\ UNCHANGED <<sideVars, poolVars, now, started, currentKey, sent, clockMoved, histVars>>
    /\ UNCHANGED <<storage, youtubeData, savedVideos, params>>

\* the callback's await resumes: the cron job's catch, or the .catch of the
\* startup fetch, logs a failure; the cycle is over either way
CycleEnd(t) ==
    /\ pc[t] = "settled"
    /\ pc' = [pc EXCEPT ![t] = "idle"]
    /\ result' = NoResult
    /\ cycleResult' = NoCycleResult
    /\ rejected' = [rejected EXCEPT ![t] = FALSE]
    /\ lastEvent' = Event("cycleEnd", t, 0)
    /\ fetchCalls' = [fetchCalls EXCEPT ![t] = 0]
    /\ availableAtEntry' = [availableAtEntry EXCEPT ![t] = {}]
    /\ UNCHANGED <<sideVars, poolVars, now, started, currentKey, sent, clockMoved, histVars>>
    /\ UNCHANGED <<storage, youtubeData, savedVideos, params>>

Next ==
    \/ AppListen
    \/ CronTick
    \/ \E t \in Tasks : Response200(t)
    \/ \E t \in Tasks : Response403(t)
    \/ \E t \in Tasks : ResponseError(t)
    \/ \E t \in Tasks : UpsertDone(t)
    \/ \E t \in Tasks : UpsertFails(t)
    \/ \E t \in Tasks : CycleEnd(t)
    \/ Tick

Spec == Init /\ [][Next]_vars

\* -------------------------------------------------- sequential execution
\* one cycle at a time, the provider finding no video: the cycles use the
\* key pool in turn
NoCycleInProgress == \A t \in Tasks : pc[t] = "idle"
SeqAppListen == NoCycleInProgress /\ AppListen
SeqCronTick == NoCycleInProgress /\ CronTick

NextSeq ==
    \/ SeqAppListen
    \/ SeqCronTick
    \/ \E t \in Tasks : Response200Empty(t)
    \/ \E t \in Tasks : Response403(t)
    \/ \E t \in Tasks : ResponseError(t)
    \/ \E t \in Tasks : CycleEnd(t)
    \/ Tick

SpecSeq == Init /\ [][NextSeq]_vars

\* ------------------------------------------- overlapping cycles, two views
\* the provider finds no video: the cycles meet at the key pool only
NextFetch ==
    \/ AppListen
    \/ CronTick
    \/ \E t \in Tasks : Response200Empty(t)
    \/ \E t \in Tasks : Response403(t)
    \/ \E t \in Tasks : ResponseError(t)
    \/ \E t \in Tasks : CycleEnd(t)
    \/ Tick

SpecFetch == Init /\ [][NextFetch]_vars

\* no quota error and a clock standing still: the cycles meet at the
\* Video collection only, and the pool, which they leave alone, has one key;
\* the startup fetch overlaps the cron cycles, which follow one another
InitStore == Init /\ KeysLength = 1
CronTickInTurn == (\A t \in CronTasks : pc[t] = "idle") /\ CronTick

NextStore ==
    \/ AppListen
    \/ CronTickInTurn
    \/ \E t \in Tasks : Response200(t)
    \/ \E t \in Tasks : ResponseError(t)
    \/ \E t \in Tasks : UpsertDone(t)
    \/ \E t \in Tasks : UpsertFails(t)
    \/ \E t \in Tasks : CycleEnd(t)

SpecStore == InitStore /\ [][NextStore]_vars

\* the cron job keeps firing, every request is answered, time passes
FairSpec ==
    /\ SpecSeq
    /\ WF_vars(SeqCronTick)
    /\ WF_vars(Tick)
    /\ \A t \in Tasks : WF_vars(Response200Empty(t) \/ Response403(t) \/ ResponseError(t))
    /\ \A t \in Tasks : WF_vars(CycleEnd(t))

\* ------------------------------------------ whole cycles, one at a time
\* every way a cycle can end, with the clock standing still
NextCycle ==
    \/ SeqAppListen
    \/ SeqCronTick
    \/ \E t \in Tasks : Response200(t)
    \/ \E t \in Tasks : Response403(t)
    \/ \E t \in Tasks : ResponseError(t)
    \/ \E t \in Tasks : UpsertDone(t)
    \/ \E t \in Tasks : UpsertFails(t)
    \/ \E t \in Tasks : CycleEnd(t)

SpecCycle == Init /\ [][NextCycle]_vars

\* the cron job keeps firing, every request and every upsert is answered
FairCycle ==
    /\ SpecCycle
    /\ WF_vars(SeqCronTick)
    /\ \A t \in Tasks : WF_vars(Response200(t) \/ Response403(t) \/ ResponseError(t))
    /\ \A t \in Tasks : WF_vars(UpsertDone(t) \/ UpsertFails(t))
    /\ \A t \in Tasks : WF_vars(CycleEnd(t))

\* --------------------------------------------- results of several pages
\* whole cycles, one at a time, the provider answering with any page of
\* its results
NextPage ==
    \/ SeqAppListen
    \/ SeqCronTick
    \/ \E t \in Tasks : Response200Page(t)
    \/ \E t \in Tasks : Response403(t)
    \/ \E t \in Tasks : ResponseError(t)
    \/ \E t \in Tasks : UpsertDone(t)
    \/ \E t \in Tasks : UpsertFails(t)
    \/ \E t \in Tasks : CycleEnd(t)

SpecPage == Init /\ [][NextPage]_vars

\* ---------------------------------------------------------- construction
\* apiKeyManager.js is being loaded: the constructor has not run yet and
\* nothing else has started
InitConstruct ==
    /\ keysArg \in Args
    /\ construction = "pending"
    /\ keys = NoPool
    /\ currentKeyIndex = 0
    /\ now = StartTime
    /\ started = FALSE
    /\ pc = [t \in Tasks |-> "idle"]
    /\ currentKey = [t \in Tasks |-> NoKey]
    /\ result = NoResult
    /\ sent = [t \in Tasks |-> <<>>]
    /\ clockMoved = [t \in Tasks |-> FALSE]
    /\ params = [t \in Tasks |-> NoParams]
    /\ fetchCalls = [t \in Tasks |-> 0]
    /\ availableAtEntry = [t \in Tasks |-> {}]
    /\ storage = <<>>
    /\ youtubeData = [t \in Tasks |-> NoData]
    /\ savedVideos = [t \in Tasks |-> <<>>]
    /\ cycleResult = NoCycleResult
    /\ rejected = [t \in Tasks |-> FALSE]
    /\ query = NoQuery
    /\ response = NoResponse
    /\ lastEvent = Event("require", NoTask, 0)
    /\ forbiddenSeen = {}
    /\ markCount = 0
    /\ marksInRow = 0
    /\ runOldest = StartTime
    /\ lastGet = NoKey

\* const keyManager = new APIKeyManager(process.env.YOUTUBE_API_KEYS)
Construct ==
    /\ construction = "pending"
    /\ LET r == APIKeyManager(keysArg)
       IN  IF r.thrown # ""
           THEN /\ construction' = r.thrown
                /\ UNCHANGED poolVars
           ELSE /\ construction' = "constructed"
                /\ keys' = r.keys
                /\ currentKeyIndex' = r.currentKeyIndex
    /\ lastEvent' = Event("construct", NoTask, 0)
    /\ UNCHANGED <<keysArg, query, response, now, taskVars, cycleVars, histVars>>

SpecConstruct == InitConstruct /\ [][Construct]_vars

\* -------------------------------------------------------------- the API
\* the collection as earlier cycles left it
InitApi ==
    /\ Constructed
    /\ KeysLength = 1
    /\ \E n \in 0..MaxStored :
          storage = [i \in 1..n |-> [videoId |-> i, title |-> "t1"]]

\* GET /api/videos
GetVideos ==
    /\ \E q \in Queries :
          /\ query' = q
          /\ response' = getVideos(storage, q)
    /\ lastEvent' = Event("getVideos", NoTask, 200)
    /\ UNCHANGED <<keysArg, construction, poolVars, now, taskVars, cycleVars, histVars>>

SpecApi == InitApi /\ [][GetVideos]_vars

\* ================================================================ claims

\* C1: in every reachable state getCurrentKey() either fails because no key
\* is available or returns the secret of a key that is not marked exhausted.
C1_CurrentKeyNotExhausted ==
    LET k == getCurrentKey(keys, currentKeyIndex)
    IN  \/ k = NoAvailableKeysError
        \/ \A i \in DOMAIN keys : keys[i].key = k => ~keys[i].quotaExhausted

\* C2: once every key is exhausted and 24 hours have passed since one of
\* them was exhausted, a later cycle eventually issues a request again.
AllExhaustedWindowElapsed ==
    /\ ~hasAvailableKeys(keys)
    /\ \E i \in DOMAIN keys : now - keys[i].lastUsed >= twentyFourHours
C2_ExhaustionRecoverable ==
    AllExhaustedWindowElapsed ~> (\E t \in Tasks : pc[t] = "awaiting")

\* C3: from construction and within the first 24 hours, every one of the
\* first N markKeyAsExhausted() calls exhausts a key that was not exhausted
\* yet: hasAvailableKeys() is true after fewer than N calls, false from the
\* N-th on.
WithinFirstWindow == now - StartTime < twentyFourHours
C3_AvailableUntilNMarks ==
    WithinFirstWindow =>
        /\ markCount < KeysLength =>
              /\ hasAvailableKeys(keys)
              /\ Cardinality(ExhaustedSet(keys)) = markCount
        /\ markCount >= KeysLength => ~hasAvailableKeys(keys)
C3_Witness ==
    /\ KeysLength >= 2
    /\ markCount = KeysLength
    /\ now = StartTime + ClockStep
    /\ ~hasAvailableKeys(keys)

\* C4: after N markKeyAsExhausted() calls in a row, all within one reset
\* window of the oldest exhaustion in force, hasAvailableKeys() is false and
\* a following getCurrentKey() throws; getCurrentKey() changes nothing in
\* the pool.
NMarksInWindow ==
    /\ marksInRow >= KeysLength
    /\ now - runOldest < twentyFourHours
C4_AfterNMarks ==
    NMarksInWindow =>
        /\ ~hasAvailableKeys(keys)
        /\ lastEvent.op = "getCurrentKey" => lastGet = NoAvailableKeysError
C4_GetLeavesPool ==
    lastEvent'.op = "getCurrentKey" => UNCHANGED poolVars
C5_Return(t) ==
    LET A == KeyIndex(keys, sent[t][1])
        B == KeyIndex(keys, sent[t][2])
    IN  /\ result' = ResponseData(sent[t][2])
        /\ keys'[A].quotaExhausted
        /\ ~keys'[B].quotaExhausted
        /\ currentKeyIndex' = B
C5_RetrySucceedsOnNext ==
    [][\A t \in Tasks :
          (Len(sent[t]) = 2 /\ lastEvent' = Event("response", t, 200)) => C5_Return(t)]_vars

\* C6: whenever a call fails while no key is available (on entry, or after
\* the 403 that exhausted the last key) it fails with the all-keys-exhausted
\* error, and no further request is in flight for it.
C6_QuotaErrorKind ==
    (result.kind \notin {"none", "data"} /\ ~hasAvailableKeys(keys)) =>
        /\ result = AllKeysExhaustedError
        /\ pc[lastEvent.task] = "settled"

\* C7: while the clock has not moved during a call, the call has issued at
\* most N requests.
C7_AtMostNRequests ==
    \A t \in Tasks : ~clockMoved[t] => Len(sent[t]) <= KeysLength

\* C8: no two requests of one call carry the same key.
C8_NoKeyTwice ==
    \A t \in Tasks : \A i, j \in 1..Len(sent[t]) : i # j => sent[t][i] # sent[t][j]

\* C9: a response other than 200 and 403 (or no response) settles the call
\* with that error, issues no retry and leaves keys and currentKeyIndex as
\* they were.
C9_Step(t) ==
    /\ UNCHANGED poolVars
    /\ pc'[t] = "settled"
    /\ sent'[t] = <<>>
    /\ result' = AxiosError(lastEvent'.status, currentKey[t])
C9_OtherErrorsPropagate ==
    [][\A t \in Tasks :
          (/\ pc[t] = "awaiting"
           /\ lastEvent'.op = "response"
           /\ lastEvent'.task = t
           /\ lastEvent'.status \in OtherStatuses) => C9_Step(t)]_vars
C9_Witness ==
    /\ lastEvent.op = "response"
    /\ lastEvent.status = 500
    /\ result.kind = "AxiosError"
    /\ result.status = 500
    /\ ExhaustedSet(keys) # {}
    /\ hasAvailableKeys(keys)

\* C10: a key is marked exhausted only if a request that carried it got a
\* 403 since the key's last reset.
C10_ExhaustedOnlyAfter403 ==
    \A i \in DOMAIN keys : keys[i].quotaExhausted => i \in forbiddenSeen

\* C11: whatever cycles ran (one after another or overlapping, with pages
\* that repeat an id), the Video collection holds at most one document per
\* videoId; saving an id that is already stored replaces that document by the
\* new videoData and leaves the number of documents as it was.
OneRecordPerVideoId ==
    \A v \in VideoIds : Cardinality(Matching(storage, v)) <= 1

C11_Reingest ==
    \A t \in Tasks :
        (pc[t] = "saving" /\ lastEvent' = Event("upsert", t, Len(savedVideos[t]))) =>
            LET vd == VideoData(youtubeData[t].items[Len(savedVideos[t]) + 1])
            IN  /\ Matching(storage, vd.videoId) # {} => Len(storage') = Len(storage)
                /\ Matching(storage, vd.videoId) = {} => Len(storage') = Len(storage) + 1
                /\ \A i \in Matching(storage', vd.videoId) : storage'[i] = vd
                /\ \A i \in 1..Len(storage) :
                       storage[i].videoId # vd.videoId => storage'[i] = storage[i]

C11_AtMostOneRecordPerId == []OneRecordPerVideoId /\ [][C11_Reingest]_vars

\* a page that repeats an id with another title has been saved while
\* another cycle is saving: the collection holds the id once, with the
\* later title
C11_Witness ==
    /\ cycleResult.kind = "returned"
    /\ Len(cycleResult.videos) = 2
    /\ cycleResult.videos[1].videoId = cycleResult.videos[2].videoId
    /\ cycleResult.videos[1].title # cycleResult.videos[2].title
    /\ \E i \in 1..Len(storage) : storage[i] = cycleResult.videos[2]
    /\ \E u \in Tasks : pc[u] = "saving" /\ Len(savedVideos[u]) = 1

\* C12: when the findOneAndUpdate of an item rejects, the cycle is over:
\* no later item of the page is upserted, fetchAndSaveVideos rejects with
\* the persistence error, and the collection is left as it was, the
\* documents of the items before the failing one still in it.
C12_Step(t) ==
    (pc[t] = "saving" /\ lastEvent'.op = "upsertFailed" /\ lastEvent'.task = t) =>
        /\ pc'[t] = "settled"
        /\ youtubeData'[t] = NoData
        /\ cycleResult' = Rejected(PersistenceError)
        /\ rejected'[t]
        /\ storage' = storage
        /\ \A j \in 1..Len(savedVideos[t]) :
               Matching(storage', savedVideos[t][j].videoId) # {}

C12_FailedUpsertStopsCycle == [][\A t \in Tasks : C12_Step(t)]_vars

\* the second item of a page has failed after the first was written
C12_Witness ==
    /\ lastEvent.op = "upsertFailed"
    /\ lastEvent.status = 1
    /\ pc[lastEvent.task] = "settled"
    /\ cycleResult = Rejected(PersistenceError)
    /\ storage # <<>>

\* C13: when the response has an empty items array, or no items field,
\* fetchAndSaveVideos writes nothing, leaves the collection as it was and
\* returns the empty list.
EmptyData == {d \in YoutubeData : ~d.hasItems \/ Len(d.items) = 0}

C13_Step(t) ==
    (\E d \in EmptyData : Respond200(t, d)) =>
        /\ storage' = storage
        /\ pc'[t] = "settled"
        /\ cycleResult' = Returned(<<>>)
        /\ ~rejected'[t]

C13_EmptyPageNoWrite == [][\A t \in Tasks : C13_Step(t)]_vars

\* a cycle has returned [] with documents of earlier cycles in storage
C13_Witness ==
    /\ lastEvent.op = "response"
    /\ lastEvent.status = 200
    /\ cycleResult = Returned(<<>>)
    /\ pc[lastEvent.task] = "settled"
    /\ storage # <<>>

\* C14: a cycle that failed (no key left, an error of the API, a failed
\* upsert), started by the cron job or by app.listen, ends in the catch of
\* its caller, which disturbs no other cycle; the cron job stays able to
\* fire whenever no cycle is running, and after every failure a later tick
\* starts a new cycle.
C14_Caught(t) ==
    (pc[t] = "settled" /\ rejected[t] /\ lastEvent' = Event("cycleEnd", t, 0)) =>
        /\ pc'[t] = "idle"
        /\ \A u \in Tasks \ {t} : pc'[u] = pc[u]

FailedCycle(t) == pc[t] = "settled" /\ rejected[t]

C14_FailureNeverStopsScheduler ==
    /\ [][\A t \in Tasks : C14_Caught(t)]_vars
    /\ [](NoCycleInProgress => ENABLED SeqCronTick)
    /\ \A t \in Tasks : FailedCycle(t) ~> (lastEvent.op = "cron")

\* a tick has started a cycle, which failed at once, with documents in
\* storage and every key exhausted: a cycle before it failed on the quota
C14_Witness ==
    /\ lastEvent.op = "cron"
    /\ storage # <<>>
    /\ ~hasAvailableKeys(keys)
    /\ rejected[lastEvent.task]

\* C15: after every completed rotateToNextKey(), called directly or by
\* markKeyAsExhausted(), the key at currentKeyIndex is not exhausted or every
\* key of the pool is exhausted.
RotationJustRan ==
    \/ lastEvent.op \in {"markKeyAsExhausted", "rotateToNextKey"}
    \/ lastEvent.op = "response" /\ lastEvent.status = 403

C15_CursorOnAvailableKey ==
    RotationJustRan =>
        \/ ~keys[currentKeyIndex].quotaExhausted
        \/ ~hasAvailableKeys(keys)

\* C16: quotaExhausted of a key goes from true to false only in a step that
\* runs rotateToNextKey (directly or inside markKeyAsExhausted), and only
\* for a key whose lastUsed is at least twenty-four hours before now; the
\* clock moving, or getCurrentKey, never clears a flag.
C16_Step ==
    \A i \in DOMAIN keys :
        (keys[i].quotaExhausted /\ ~keys'[i].quotaExhausted) =>
            /\ lastEvent'.op \in {"markKeyAsExhausted", "rotateToNextKey"}
            /\ now' = now
            /\ now - keys[i].lastUsed >= twentyFourHours
            /\ keys'[i].lastUsed = keys[i].lastUsed

C16_ClearedOnlyByRotationAfterWindow == [][C16_Step]_vars

\* a markKeyAsExhausted has just swept: the key it marked is exhausted as
\* of now, and a key marked a window ago is available again
C16_Witness ==
    /\ lastEvent.op = "markKeyAsExhausted"
    /\ keys[currentKeyIndex].quotaExhausted
    /\ keys[currentKeyIndex].lastUsed = now
    /\ \E i \in DOMAIN keys :
          /\ ~keys[i].quotaExhausted
          /\ keys[i].lastUsed > 0
          /\ now - keys[i].lastUsed >= twentyFourHours

\* C17: markKeyAsExhausted() with the index at c marks key c and moves the
\* index to the nearest key after c, in circular order, that is not
\* exhausted; when no other key is available the index is back at c and
\* resetExhaustedKeys has run exactly once, clearing the flag of every key
\* whose lastUsed is at least twenty-four hours old.
CircularDistance(c, i, n) == (i - c + n) % n

C17_Expected(ks, c, t) ==
    LET marked == [ks EXCEPT ![c] = [@ EXCEPT !.quotaExhausted = TRUE, !.lastUsed = t]]
        n == Cardinality(DOMAIN ks)
        others == {i \in DOMAIN ks \ {c} : ~ks[i].quotaExhausted}
    IN  IF others # {}
        THEN [keys |-> marked,
              currentKeyIndex |->
                  CHOOSE i \in others :
                      \A j \in others : CircularDistance(c, i, n) <= CircularDistance(c, j, n),
              sweeps |-> 0]
        ELSE [keys |-> [i \in DOMAIN ks |->
                          IF t - marked[i].lastUsed >= twentyFourHours
                          THEN [marked[i] EXCEPT !.quotaExhausted = FALSE]
                          ELSE marked[i]],
              currentKeyIndex |-> c,
              sweeps |-> 1]

C17_Step ==
    lastEvent'.op = "markKeyAsExhausted" =>
        LET expected == C17_Expected(keys, currentKeyIndex, now)
        IN  /\ keys' = expected.keys
            /\ currentKeyIndex' = expected.currentKeyIndex
            /\ markKeyAsExhausted(keys, currentKeyIndex, now).sweeps = expected.sweeps

C17_MarkMovesToNextAvailable == [][C17_Step]_vars

\* three keys, the last available one has just been marked: the index is
\* back on it, the sweep cleared one key and kept a younger one
C17_Witness ==
    /\ lastEvent.op = "markKeyAsExhausted"
    /\ KeysLength = 3
    /\ keys[currentKeyIndex].lastUsed = now
    /\ \E i, j \in DOMAIN keys \ {currentKeyIndex} :
          /\ ~keys[i].quotaExhausted /\ keys[i].lastUsed > 0
          /\ keys[j].quotaExhausted /\ now - keys[j].lastUsed < twentyFourHours

\* C18: the constructor given nothing, a value that is not a string, the
\* empty string, only whitespace, or only commas and whitespace throws an
\* Error about the configuration and builds no pool.
BlankArg(arg) ==
    \/ arg.type # "string"
    \/ \A i \in 1..Len(arg.chars) : arg.chars[i] \in Whitespace \cup {","}

ConfigurationErrors == {NoKeysProvided, NoValidKeys}

C18_BlankInputFails ==
    (construction # "pending" /\ BlankArg(keysArg)) =>
        /\ construction \in ConfigurationErrors
        /\ keys = NoPool

\* commas with whitespace between them were given and refused
C18_Witness ==
    /\ construction = NoValidKeys
    /\ keysArg.chars = <<" ", ",", "\t", ",">>
    /\ keys = NoPool

\* C19: the constructor given a string with at least one entry that is not
\* blank builds a pool of exactly the entries between the commas, trimmed,
\* the blank ones dropped, in their order ("a, b ,c" gives a, b, c), every
\* key not exhausted with lastUsed 0, and currentKeyIndex 0.
\* The entries are described by positions: a piece lies between two
\* neighbouring separators, and its entry runs from its first to its last
\* character that is not whitespace.
Separators(cs) == {0, Len(cs) + 1} \cup {i \in 1..Len(cs) : cs[i] = ","}
NextSeparator(cs, b) ==
    CHOOSE e \in Separators(cs) :
        e > b /\ \A x \in Separators(cs) : x > b => e <= x
Solid(cs, b) ==
    {i \in (b + 1)..(NextSeparator(cs, b) - 1) : cs[i] \notin Whitespace}
EntryStarts(cs) == {b \in Separators(cs) \ {Len(cs) + 1} : Solid(cs, b) # {}}
EntryAt(cs, b) ==
    LET lo == CHOOSE i \in Solid(cs, b) : \A j \in Solid(cs, b) : i <= j
        hi == CHOOSE i \in Solid(cs, b) : \A j \in Solid(cs, b) : i >= j
    IN  SubSeq(cs, lo, hi)
ExpectedEntries(cs) ==
    [k \in 1..Cardinality(EntryStarts(cs)) |->
        EntryAt(cs, CHOOSE b \in EntryStarts(cs) :
                        Cardinality({x \in EntryStarts(cs) : x < b}) = k - 1)]

C19_EntriesInOrder ==
    (construction # "pending" /\ ~BlankArg(keysArg)) =>
        LET expected == ExpectedEntries(keysArg.chars)
        IN  /\ construction = "constructed"
            /\ currentKeyIndex = 0
            /\ DOMAIN keys = 0..(Len(expected) - 1)
            /\ \A i \in DOMAIN keys :
                  /\ keys[i].key = expected[i + 1]
                  /\ ~keys[i].quotaExhausted
                  /\ keys[i].lastUsed = 0
            /\ keysArg.chars = ExampleKeys =>
                  [i \in DOMAIN keys |-> keys[i].key] =
                      (0 :> <<"a">> @@ 1 :> <<"b">> @@ 2 :> <<"c">>)

\* the pool built from "a, b ,c"
C19_Witness ==
    /\ construction = "constructed"
    /\ keysArg = String(ExampleKeys)
    /\ KeysLength = 3
    /\ keys[1].key = <<"b">>

\* C20: GET /api/videos without a limit parameter answers with a page size
\* of 12: the videos of the asked page, at most 12 of them, and totalPages
\* the number of videos divided by 12, rounded up.
C20_DefaultLimitTwelve ==
    (lastEvent.op = "getVideos" /\ ~query.limit.given) =>
        LET page == response.currentPage
            rest == Max(0, response.totalVideos - (page - 1) * ReadmeDefaultLimit)
        IN  /\ response.count = Min(ReadmeDefaultLimit, rest)
            /\ response.totalPages = Ceil(response.totalVideos, ReadmeDefaultLimit)

\* C21: with every request answered, a top-level fetchVideosFromYouTube call
\* ends with a result or an error even when every answer is a 403: while the
\* clock stands still during the call, every 403 leaves one more key
\* exhausted than before, and the retry stops exactly when none is left.
C21_OneMoreExhausted(t) ==
    (/\ pc[t] = "awaiting"
     /\ ~clockMoved[t]
     /\ lastEvent' = Event("response", t, 403)) =>
        /\ Cardinality(ExhaustedSet(keys')) = Cardinality(ExhaustedSet(keys)) + 1
        /\ pc'[t] = "settled" <=> ~hasAvailableKeys(keys')

C21_CallTerminates == \A t \in Tasks : (pc[t] = "awaiting") ~> (pc[t] = "settled")

C21_RetryBottomsOut ==
    /\ C21_CallTerminates
    /\ [][\A t \in Tasks : C21_OneMoreExhausted(t)]_vars

\* C22: at most one fetch-and-save cycle is in progress at any time: no
\* cron tick and no startup fetch starts a cycle while another cycle still
\* awaits its request or an upsert.
InProgress == {t \in Tasks : pc[t] \in {"awaiting", "saving"}}

C22_OneCycleAtATime == Cardinality(InProgress) <= 1

\* C23: within one cycle the upserts are made one at a time in the order of
\* the page: while item k+1 is being upserted exactly the first k items have
\* been written and pushed, each upsert writes the next item of the page, and
\* the list the cycle returns has the order of the page.
PageDocuments(items, k) == [i \in 1..k |-> VideoData(items[i])]

C23_Prefix ==
    \A t \in Tasks :
        pc[t] = "saving" =>
            /\ Len(savedVideos[t]) < Len(youtubeData[t].items)
            /\ savedVideos[t] = PageDocuments(youtubeData[t].items, Len(savedVideos[t]))

C23_Step(t) ==
    (pc[t] = "saving" /\ lastEvent'.op = "upsert" /\ lastEvent'.task = t) =>
        LET items == youtubeData[t].items
            k == Len(savedVideos[t])
        IN  /\ lastEvent'.status = k
            /\ \E i \in 1..Len(storage') : storage'[i] = VideoData(items[k + 1])
            /\ IF k + 1 < Len(items)
               THEN /\ pc'[t] = "saving"
                    /\ youtubeData'[t] = youtubeData[t]
                    /\ savedVideos'[t] = PageDocuments(items, k + 1)
               ELSE /\ pc'[t] = "settled"
                    /\ cycleResult' = Returned(PageDocuments(items, Len(items)))

C23_UpsertsInPageOrder == []C23_Prefix /\ [][\A t \in Tasks : C23_Step(t)]_vars

\* a page of two items with different titles has been saved: the list
\* returned has the order of the page and the collection holds the later one
C23_Witness ==
    /\ lastEvent.op = "upsert"
    /\ lastEvent.status = 1
    /\ cycleResult.kind = "returned"
    /\ Len(cycleResult.videos) = 2
    /\ cycleResult.videos[1].title = "t2"
    /\ cycleResult.videos[2].title = "t1"
    /\ \E i \in 1..Len(storage) : storage[i] = cycleResult.videos[2]

\* C24: when fetchVideosFromYouTube fails in a cycle (no key left, or any
\* error of the API), fetchAndSaveVideos writes nothing to the collection in
\* that cycle and rejects with that very error.
FetchErrors == {"AllKeysExhausted", "AxiosError"}

C24_FetchFailure(t) ==
    (result'.kind \in FetchErrors /\ lastEvent'.task = t) =>
        /\ pc[t] \in {"idle", "awaiting"}
        /\ pc'[t] = "settled"
        /\ cycleResult' = Rejected(result')
        /\ rejected'[t]
        /\ storage' = storage
        /\ savedVideos[t] = <<>> /\ savedVideos'[t] = <<>>

\* the collection changes in upsert steps of a saving cycle only, and a
\* cycle that has begun to save issues no request again
C24_WritesOnlyWhileSaving ==
    /\ storage' # storage =>
          lastEvent'.op = "upsert" /\ pc[lastEvent'.task] = "saving"
    /\ \A t \in Tasks : pc[t] = "saving" => pc'[t] \in {"saving", "settled"}

C24_FetchFailurePropagates ==
    [][C24_WritesOnlyWhileSaving /\ \A t \in Tasks : C24_FetchFailure(t)]_vars

\* with documents of an earlier cycle stored, a cycle has failed on the 403
\* that exhausted the last key, after a retry
C24_Witness ==
    /\ lastEvent.op = "response"
    /\ lastEvent.status = 403
    /\ result.kind = "AxiosError"
    /\ cycleResult = Rejected(result)
    /\ KeysLength >= 2
    /\ ~hasAvailableKeys(keys)
    /\ storage # <<>>

\* C25: a cycle calls fetchVideosFromYouTube once, with the default query
\* and no page token; it requests nothing more once a page has come, even
\* when the page has a nextPageToken; a retry within the call carries the
\* query and the page token of the request that failed.
C25_OneCallFirstPage ==
    \A t \in Tasks :
        /\ pc[t] = "idle" => fetchCalls[t] = 0
        /\ pc[t] # "idle" => fetchCalls[t] = 1
        /\ pc[t] = "awaiting" => params[t] = Params(SEARCH_QUERY, NoToken)

C25_Step(t) ==
    /\ (pc[t] = "awaiting" /\ pc'[t] = "awaiting") =>
          /\ lastEvent' = Event("response", t, 403)
          /\ params'[t] = params[t]
          /\ fetchCalls'[t] = fetchCalls[t]
    /\ (pc[t] = "awaiting" /\ lastEvent' = Event("response", t, 200)) =>
          /\ pc'[t] \in {"saving", "settled"}
          /\ params'[t] = NoParams
    /\ pc[t] \in {"saving", "settled"} => pc'[t] # "awaiting"

C25_FirstPageOnly == []C25_OneCallFirstPage /\ [][\A t \in Tasks : C25_Step(t)]_vars

\* after a retry a page with a nextPageToken has come and is being saved
C25_Witness ==
    /\ lastEvent.op = "response"
    /\ lastEvent.status = 200
    /\ pc[lastEvent.task] = "saving"
    /\ youtubeData[lastEvent.task].nextPageToken # NoToken
    /\ fetchCalls[lastEvent.task] = 1
    /\ result.key = Secret(1)
    /\ keys[0].quotaExhausted

\* C26: in every reachable state of the pool (one key, every key exhausted)
\* rotateToNextKey, called directly or by markKeyAsExhausted, completes
\* without an error after at least one and at most N advances of the index,
\* which it leaves a valid index, and it calls resetExhaustedKeys at most
\* once.
C26_Bounded(r) ==
    /\ r.steps \in 1..KeysLength
    /\ r.sweeps \in {0, 1}
    /\ r.sweeps = 1 <=> r.steps = KeysLength
    /\ r.currentKeyIndex \in DOMAIN keys
    /\ DOMAIN r.keys = DOMAIN keys

C26_RotateTerminates ==
    /\ C26_Bounded(rotateToNextKey(keys, currentKeyIndex, now))
    /\ C26_Bounded(markKeyAsExhausted(keys, currentKeyIndex, now))

\* a direct rotateToNextKey has gone all the way round a pool of three
\* exhausted keys, and its sweep has cleared none
C26_Witness ==
    /\ lastEvent.op = "rotateToNextKey"
    /\ KeysLength = 3
    /\ ~hasAvailableKeys(keys)
    /\ rotateToNextKey(keys, currentKeyIndex, now).steps = 3

\* C27: in every reachable state currentKeyIndex is a valid index of keys,
\* and keys has the secrets the constructor put there, in the same order and
\* number: no step adds, removes, moves or rewrites a secret.
C27_ValidIndexSamePool ==
    /\ KeysLength \in 1..MaxKeys
    /\ DOMAIN keys = 0..(KeysLength - 1)
    /\ currentKeyIndex \in 0..(KeysLength - 1)
    /\ \A i \in DOMAIN keys : keys[i].key = NewKeyManager(KeysLength)[i].key

C27_SecretsKept ==
    /\ DOMAIN keys' = DOMAIN keys
    /\ \A i \in DOMAIN keys : keys'[i].key = keys[i].key

C27_PoolMembershipFixed == []C27_ValidIndexSamePool /\ [][C27_SecretsKept]_vars

\* three keys, each marked at least once, a sweep has freed the first two
\* and the index has wrapped round to the last
C27_Witness ==
    /\ KeysLength = 3
    /\ markCount > KeysLength
    /\ currentKeyIndex = 2
    /\ keys[2].quotaExhausted
    /\ ~keys[0].quotaExhausted /\ keys[0].lastUsed > 0
    /\ ~keys[1].quotaExhausted /\ keys[1].lastUsed > 0

\* C28: with one cycle at a time, a 403 makes fetchVideosFromYouTube call
\* markKeyAsExhausted exactly once, and the call marks the key whose secret
\* the failed request carried and no other; no other response makes it call
\* markKeyAsExhausted.
C28_Marked(t) ==
    LET c == KeyIndex(keys, currentKey[t])
    IN  /\ c = currentKeyIndex
        /\ keys'[c].quotaExhausted
        /\ keys'[c].lastUsed = now
        /\ \A i \in DOMAIN keys \ {c} :
              /\ keys'[i].lastUsed = keys[i].lastUsed
              /\ keys'[i].quotaExhausted => keys[i].quotaExhausted
        /\ keys' = markKeyAsExhausted(keys, c, now).keys
        /\ markCount < MaxKeys + 2 => markCount' = markCount + 1

C28_Step ==
    /\ \A t \in Tasks :
          (pc[t] = "awaiting" /\ lastEvent' = Event("response", t, 403)) => C28_Marked(t)
    /\ markCount' # markCount => (lastEvent'.op = "response" /\ lastEvent'.status = 403)

C28_MarksCarriedKeyOnce == [][C28_Step]_vars

\* a retry is in flight after the 403 of a later day: the key that request
\* carried is exhausted as of now
C28_Witness ==
    /\ lastEvent.op = "response"
    /\ lastEvent.status = 403
    /\ pc[lastEvent.task] = "awaiting"
    /\ Len(sent[lastEvent.task]) = 2
    /\ now > StartTime
    /\ keys[KeyIndex(keys, sent[lastEvent.task][1])].quotaExhausted
    /\ keys[KeyIndex(keys, sent[lastEvent.task][1])].lastUsed = now

\* C29: with one cycle at a time, a fetchVideosFromYouTube call fails on the
\* quota only after it has sent a request with every key that was not
\* exhausted when it was called, each of which the provider refused with a
\* 403; so a call for which the provider would accept one of those keys does
\* not fail on the quota.  It fails on entry only when no key was available.
Requested(t) == {KeyIndex(keys, sent[t][i]) : i \in 1..Len(sent[t])}

C29_Step(t) ==
    /\ (pc[t] = "awaiting" /\ lastEvent' = Event("response", t, 403) /\ pc'[t] = "settled") =>
          /\ result' = AxiosError(403, currentKey[t])
          /\ availableAtEntry[t] # {}
          /\ availableAtEntry[t] \subseteq Requested(t)
    /\ (pc[t] = "idle" /\ result' = AllKeysExhaustedError /\ lastEvent'.task = t) =>
          /\ ~hasAvailableKeys(keys)
          /\ availableAtEntry'[t] = {}

C30_Step ==
    LET c == currentKeyIndex
    IN  /\ lastEvent'.op = "markKeyAsExhausted" =>
              /\ keys'[c].quotaExhausted
              /\ keys'[c].lastUsed = now
              /\ markKeyAsExhausted(keys, c, now).steps < KeysLength =>
                    \A i \in DOMAIN keys \ {c} : keys'[i] = keys[i]
        /\ lastEvent'.op = "rotateToNextKey" =>
              (rotateToNextKey(keys, c, now).steps < KeysLength => keys' = keys)

C30_MarkedKeyStaysMarked == [][C30_Step]_vars

\* a pool of one key, marked again more than a reset window after it was
\* first marked: the sweep of the call has left it exhausted
C30_Witness ==
    /\ lastEvent.op = "markKeyAsExhausted"
    /\ KeysLength = 1
    /\ markCount >= 2
    /\ now >= StartTime + twentyFourHours
    /\ keys[0].quotaExhausted
    /\ keys[0].lastUsed = now


====
